---- MODULE Spec2Model ----
(***************************************************************************)
(* Model of stratisd's D-Bus layer (src/dbus_api/api.rs): connect, the     *)
(* Manager handlers create_pool / destroy_pool / configure_simulator,      *)
(* process_deferred_actions and handle.                                    *)
(*                                                                         *)
(* Object paths are integers: Root is STRATIS_BASE_PATH, n >= 1 is         *)
(* "<base>/n", DefaultPath is dbus::Path::default().  Uuids are naturals.  *)
(* The engine, the ActionQueue, the create_dbus_* constructors and the     *)
(* error translator live outside api.rs and are modelled from their        *)
(* contracts.                                                              *)
(***************************************************************************)
EXTENDS Integers, Sequences, FiniteSets, TLC

\* ---------------------------------------------------------------- bounds
MaxCalls == 2
MaxInitPools == 2
MaxInitFs == 1
MaxDevs == 2

\* ------------------------------------------------------------- constants
Root == 0
DefaultPath == 0 - 1
NoUuid == 0 - 1
Names == {"p1", "p2"}

msg_code_ok == 0
msg_string_ok == "OK"

\* DbusErrorEnum values used by the handlers
INTERNAL_ERROR == 3

ErrCode(kind) ==
    CASE kind = "Error" -> 1
      [] kind = "AlreadyExists" -> 2
      [] kind = "Busy" -> 4
      [] OTHER -> INTERNAL_ERROR

\* the engine error as (return code, return string)
engine_to_dbus_err_tuple(err) == [rc |-> ErrCode(err.kind), rs |-> err.msg]

\* ------------------------------------------------------------- helpers
RECURSIVE SortedSeq(_)
SortedSeq(S) ==
    IF S = {} THEN <<>>
    ELSE LET m == CHOOSE x \in S : \A y \in S : x <= y
         IN <<m>> \o SortedSeq(S \ {m})

IsPrefix(s, t) == Len(s) <= Len(t) /\ \A i \in 1..Len(s) : s[i] = t[i]

\* ------------------------------------------------------------- engine
\* A pool is [uuid, name, fss, bds]; fss and bds are sets of uuids.
PoolUuids(ps) == {p.uuid : p \in ps}
PoolOf(ps, u) == CHOOSE p \in ps : p.uuid = u
LiveUuids(ps) == PoolUuids(ps) \cup UNION {p.fss \cup p.bds : p \in ps}

\* pools an engine may hold when the daemon starts: shapes[i] = [fs, bd]
InitShapes ==
    UNION {[1..n -> [fs : 0..MaxInitFs, bd : 1..1]] : n \in 0..MaxInitPools}

InitName(i) == IF i = 1 THEN "p1" ELSE IF i = 2 THEN "p2" ELSE "p3"

RECURSIVE MkPools(_, _, _)
MkPools(shapes, i, u) ==
    IF i > Len(shapes) THEN {}
    ELSE LET fs == shapes[i].fs
             bd == shapes[i].bd
         IN {[uuid |-> u, name |-> InitName(i),
              fss |-> (u + 1)..(u + fs),
              bds |-> (u + fs + 1)..(u + fs + bd)]}
            \cup MkPools(shapes, i + 1, u + fs + bd + 1)

RECURSIVE CountUuids(_, _)
CountUuids(shapes, i) ==
    IF i > Len(shapes) THEN 0
    ELSE 1 + shapes[i].fs + shapes[i].bd + CountUuids(shapes, i + 1)

NoResult == [ok |-> TRUE, uuid |-> NoUuid, action |-> FALSE,
             kind |-> "", msg |-> ""]
OkUuid(u) == [NoResult EXCEPT !.uuid = u]
OkAction(b) == [NoResult EXCEPT !.action = b]
Err(kind, m) == [NoResult EXCEPT !.ok = FALSE, !.kind = kind, !.msg = m]

\* Engine::create_pool: name collision fails; otherwise the engine either
\* builds the pool, one block device per device node, or fails on its own.
EngineCreatePoolResults(ps, u, name, devs) ==
    IF \E p \in ps : p.name = name
    THEN {Err("AlreadyExists", "pool exists")}
    ELSE {OkUuid(u), Err("Error", "device in use")}

EngineCreatePoolState(ps, u, name, devs, r) ==
    IF r.ok
    THEN ps \cup {[uuid |-> u, name |-> name, fss |-> {},
                  bds |-> (u + 1)..(u + Cardinality(devs))]}
    ELSE ps

\* Engine::destroy_pool: Ok(false) for an unknown uuid, an error while the
\* pool still has filesystems, else the pool is torn down.
EngineDestroyPoolResult(ps, u) ==
    IF u \notin PoolUuids(ps) THEN OkAction(FALSE)
    ELSE IF PoolOf(ps, u).fss # {} THEN Err("Busy", "filesystems remaining")
    ELSE OkAction(TRUE)

EngineDestroyPoolState(ps, u) ==
    IF EngineDestroyPoolResult(ps, u).ok /\ EngineDestroyPoolResult(ps, u).action
    THEN ps \ {PoolOf(ps, u)}
    ELSE ps

\* Engine::configure_simulator: accepts or rejects the denominator
EngineConfigureResults(d) ==
    IF d = 0 THEN {Err("Error", "bad denominator")} ELSE {NoResult}

\* ------------------------------------------------------------- actions queue
Add(path, parent, uuid, kind) ==
    [op |-> "Add", path |-> path, parent |-> parent, uuid |-> uuid, kind |-> kind]
Remove(path) ==
    [op |-> "Remove", path |-> path, parent |-> DefaultPath, uuid |-> NoUuid,
     kind |-> ""]

\* OPContext stored with a bound path
Data(a) == [parent |-> a.parent, uuid |-> a.uuid, kind |-> a.kind]
NoData == [parent |-> DefaultPath, uuid |-> NoUuid, kind |-> "Manager"]

\* create_dbus_filesystem / create_dbus_blockdev for the uuids us, in uuid
\* order, taking object ids from idx + 1 on
ChildAdds(us, parent, idx, kind) ==
    [i \in 1..Cardinality(us) |->
        Add(idx + i, parent, SortedSeq(us)[i], kind)]

VARIABLES
    pc,            \* position of the daemon
    pools,         \* engine: the live pools
    nextUuid,      \* engine: next fresh uuid
    denominator,   \* engine: simulator denominator
    engineBorrow,  \* RefCell<Engine> borrow state: none / shared / mut
    actionsBorrow, \* RefCell<ActionQueue> borrow state: none / mut
    actions,       \* DbusContext.actions
    next_index,    \* DbusContext.next_index
    tree,          \* the object tree: bound path -> data
    registered,    \* paths registered with the connection
    todo,          \* connect: pools still to enumerate
    msg,           \* the method call being handled
    result,        \* handler local: the engine's result
    pool_object_path,
    bd_object_paths,
    reply,         \* what tree.handle returned
    sent,          \* none / sent / failed
    pending,       \* the Drain iterator of process_deferred_actions
    caller,        \* who called process_deferred_actions
    retval,        \* what connect / handle returned
    ncalls,        \* items handled so far
    \* observation of the current cycle
    pushed, engineOps, drained, applied, drainCount, sentAt,
    tree0, registered0, pools0, everBound

vars == <<pc, pools, nextUuid, denominator, engineBorrow, actionsBorrow,
          actions, next_index, tree, registered, todo, msg, result,
          pool_object_path, bd_object_paths, reply, sent, pending, caller,
          retval, ncalls, pushed, engineOps, drained, applied, drainCount,
          sentAt, tree0, registered0, pools0, everBound>>

engineVars == <<pools, nextUuid, denominator>>
localVars == <<result, pool_object_path, bd_object_paths>>
treeVars == <<tree, registered, everBound>>
drainVars == <<pending, drained, applied, drainCount>>
cycleVars == <<msg, tree0, registered0, pools0, ncalls>>

NoMsg == [method |-> "None", argsOk |-> TRUE, name |-> "", devs |-> {},
          path |-> DefaultPath, denom |-> 0]
NoReply == [kind |-> "None", path |-> DefaultPath, devs |-> <<>>,
            action |-> FALSE, rc |-> 0, rs |-> ""]

\* ActionQueue::drain: hands out everything queued, in order, and leaves the
\* queue empty
ActionQueueDrain(q) == [iter |-> q, queue |-> <<>>]

\* ActionQueue::push_add / push_remove, with the engine borrow at that time
Note(as) == [i \in 1..Len(as) |-> [act |-> as[i], held |-> engineBorrow]]

Push(as) ==
    /\ actionsBorrow = "none"
    /\ actions' = actions \o as
    /\ pushed' = pushed \o Note(as)

Init ==
    /\ pc = "start"
    /\ \E shapes \in InitShapes :
          /\ pools = MkPools(shapes, 1, 1)
          /\ nextUuid = 1 + CountUuids(shapes, 1)
    /\ denominator = 0
    /\ engineBorrow = "none"
    /\ actionsBorrow = "none"
    /\ actions = <<>>
    /\ next_index = 0
    /\ tree = <<>>
    /\ registered = {}
    /\ todo = {}
    /\ msg = NoMsg
    /\ result = NoResult
    /\ pool_object_path = DefaultPath
    /\ bd_object_paths = <<>>
    /\ reply = NoReply
    /\ sent = "none"
    /\ pending = <<>>
    /\ caller = "connect"
    /\ retval = "none"
    /\ ncalls = 0
    /\ pushed = <<>>
    /\ engineOps = <<>>
    /\ drained = <<>>
    /\ applied = <<>>
    /\ drainCount = 0
    /\ sentAt = 0 - 1
    /\ tree0 = <<>>
    /\ registered0 = {}
    /\ pools0 = {}
    /\ everBound = {}

\* ------------------------------------------------------------- connect
\* Connection::get_private, get_base_tree, tree.get_data().clone()
ConnectOpen ==
    /\ pc = "start"
    /\ pc' = "borrow"
    /\ tree' = (Root :> NoData)
    /\ UNCHANGED <<engineVars, engineBorrow, actionsBorrow, actions,
                   next_index, registered, everBound, todo, localVars, reply,
                   sent, sentAt, caller, retval, pushed, engineOps, drainVars,
                   cycleVars>>

\* a `?` of connect returning the error e: c, tree and dbus_context are
\* dropped
ConnectDrop(e) ==
    /\ pc' = "exit"
    /\ retval' = e
    /\ tree' = <<>>
    /\ registered' = {}
    /\ actions' = <<>>
    /\ UNCHANGED <<engineVars, engineBorrow, actionsBorrow, next_index,
                   everBound, todo, localVars, reply, sent, sentAt, caller,
                   pushed, engineOps, drainVars, cycleVars>>

ConnectOpenFail ==
    /\ pc = "start"
    /\ ConnectDrop("ErrGetPrivate")

\* local_engine.borrow().pools(): the Ref lives for the whole for loop
ConnectBorrow ==
    /\ pc = "borrow"
    /\ engineBorrow = "none"
    /\ engineBorrow' = "shared"
    /\ todo' = PoolUuids(pools)
    /\ pc' = "enumerate"
    /\ UNCHANGED <<engineVars, actionsBorrow, actions, next_index, treeVars,
                   localVars, reply, sent, sentAt, caller, retval, pushed,
                   engineOps, drainVars, cycleVars>>

\* mutant: the loop over the pool's filesystems is missing
ConnectPool_NoFilesystems ==
    /\ pc = "enumerate"
    /\ \E u \in todo :
          LET pool == PoolOf(pools, u)
              pool_path == next_index + 1
              bdAdds == ChildAdds(pool.bds, pool_path, pool_path, "Blockdev")
          IN /\ Push(<<Add(pool_path, Root, u, "Pool")>> \o bdAdds)
             /\ next_index' = pool_path + Len(bdAdds)
             /\ todo' = todo \ {u}
    /\ UNCHANGED <<pc, engineVars, engineBorrow, actionsBorrow, treeVars,
                   localVars, reply, sent, sentAt, caller, retval, engineOps,
                   drainVars, cycleVars>>

\* one iteration of the loop over the pools: the pool, its filesystems, its
\* block devices
ConnectPool ==
    /\ pc = "enumerate"
    /\ \E u \in todo :
          LET pool == PoolOf(pools, u)
              pool_path == next_index + 1
              fsAdds == ChildAdds(pool.fss, pool_path, pool_path, "Filesystem")
              bdAdds == ChildAdds(pool.bds, pool_path,
                                  pool_path + Len(fsAdds), "Blockdev")
          IN /\ Push(<<Add(pool_path, Root, u, "Pool")>> \o fsAdds \o bdAdds)
             /\ next_index' = pool_path + Len(fsAdds) + Len(bdAdds)
             /\ todo' = todo \ {u}
    /\ UNCHANGED <<pc, engineVars, engineBorrow, actionsBorrow, treeVars,
                   localVars, reply, sent, sentAt, caller, retval, engineOps,
                   drainVars, cycleVars>>

ConnectLoopEnd ==
    /\ pc = "enumerate"
    /\ todo = {}
    /\ engineBorrow' = "none"
    /\ pc' = "set_registered"
    /\ UNCHANGED <<engineVars, actionsBorrow, actions, next_index, treeVars,
                   todo, localVars, reply, sent, sentAt, caller, retval,
                   pushed, engineOps, drainVars, cycleVars>>

\* tree.set_registered(&c, true)?
ConnectSetRegistered ==
    /\ pc = "set_registered"
    /\ registered' = DOMAIN tree
    /\ pc' = "register_name"
    /\ UNCHANGED <<engineVars, engineBorrow, actionsBorrow, actions,
                   next_index, tree, everBound, todo, localVars, reply, sent,
                   sentAt, caller, retval, pushed, engineOps, drainVars,
                   cycleVars>>

ConnectSetRegisteredFail ==
    /\ pc = "set_registered"
    /\ ConnectDrop("ErrSetRegistered")

\* c.register_name(STRATIS_BASE_SERVICE, ...)?
ConnectRegisterName ==
    /\ pc = "register_name"
    /\ pc' = "drain_begin"
    /\ caller' = "connect"
    /\ UNCHANGED <<engineVars, engineBorrow, actionsBorrow, actions,
                   next_index, treeVars, todo, localVars, reply, sent, sentAt,
                   retval, pushed, engineOps, drainVars, cycleVars>>

ConnectRegisterNameFail ==
    /\ pc = "register_name"
    /\ ConnectDrop("ErrRegisterName")

\* ------------------------------------------------ process_deferred_actions
\* dbus_context.actions.borrow_mut() and actions.drain(): the Drain iterator
\* owns what was queued, the queue itself is empty from here on
DrainBegin ==
    /\ pc = "drain_begin"
    /\ actionsBorrow = "none"
    /\ actionsBorrow' = "mut"
    /\ pending' = ActionQueueDrain(actions).iter
    /\ actions' = ActionQueueDrain(actions).queue
    /\ drained' = ActionQueueDrain(actions).iter
    /\ applied' = <<>>
    /\ drainCount' = drainCount + 1
    /\ pc' = "draining"
    /\ UNCHANGED <<engineVars, engineBorrow, next_index, treeVars, todo,
                   localVars, reply, sent, sentAt, caller, retval, pushed,
                   engineOps, cycleVars>>

\* mutant: the newest Add is applied first
DrainAdd_Lifo ==
    /\ pc = "draining"
    /\ pending # <<>>
    /\ pending[Len(pending)].op = "Add"
    /\ pending[Len(pending)].path \notin registered
    /\ registered' = registered \cup {pending[Len(pending)].path}
    /\ tree' = (pending[Len(pending)].path :> Data(pending[Len(pending)]))
               @@ tree
    /\ everBound' = everBound \cup {pending[Len(pending)].path}
    /\ applied' = Append(applied, pending[Len(pending)])
    /\ pending' = SubSeq(pending, 1, Len(pending) - 1)
    /\ UNCHANGED <<pc, engineVars, engineBorrow, actionsBorrow, actions,
                   next_index, todo, localVars, reply, sent, sentAt, caller,
                   retval, pushed, engineOps, drained, drainCount, cycleVars>>

\* DeferredAction::Add: register_object_path succeeded, tree.insert
DrainAdd ==
    /\ pc = "draining"
    /\ pending # <<>>
    /\ Head(pending).op = "Add"
    /\ Head(pending).path \notin registered
    /\ registered' = registered \cup {Head(pending).path}
    /\ tree' = (Head(pending).path :> Data(Head(pending))) @@ tree
    /\ everBound' = everBound \cup {Head(pending).path}
    /\ applied' = Append(applied, Head(pending))
    /\ pending' = Tail(pending)
    /\ UNCHANGED <<pc, engineVars, engineBorrow, actionsBorrow, actions,
                   next_index, todo, localVars, reply, sent, sentAt, caller,
                   retval, pushed, engineOps, drained, drainCount, cycleVars>>

\* mutant: the actions behind the failing one stay in the queue
DrainAddFail_Requeue ==
    /\ pc = "draining"
    /\ pending # <<>>
    /\ Head(pending).op = "Add"
    /\ pending' = <<>>
    /\ actions' = Tail(pending)
    /\ actionsBorrow' = "none"
    /\ retval' = "Err"
    /\ pc' = "drain_ret"
    /\ UNCHANGED <<engineVars, engineBorrow, next_index, treeVars,
                   todo, localVars, reply, sent, sentAt, caller, pushed,
                   engineOps, drained, applied, drainCount, cycleVars>>

\* mutant: the path is inserted in the tree before it is registered
DrainAddFail_Insert ==
    /\ pc = "draining"
    /\ pending # <<>>
    /\ Head(pending).op = "Add"
    /\ tree' = (Head(pending).path :> Data(Head(pending))) @@ tree
    /\ everBound' = everBound \cup {Head(pending).path}
    /\ pending' = <<>>
    /\ actionsBorrow' = "none"
    /\ retval' = "Err"
    /\ pc' = "drain_ret"
    /\ UNCHANGED <<engineVars, engineBorrow, actions, next_index, registered,
                   todo, localVars, reply, sent, sentAt, caller, pushed,
                   engineOps, drained, applied, drainCount, cycleVars>>

\* DeferredAction::Add: register_object_path(..)? returns the error; the
\* Drain iterator is dropped with the actions it still holds
DrainAddFail ==
    /\ pc = "draining"
    /\ pending # <<>>
    /\ Head(pending).op = "Add"
    /\ pending' = <<>>
    /\ actionsBorrow' = "none"
    /\ retval' = "Err"
    /\ pc' = "drain_ret"
    /\ UNCHANGED <<engineVars, engineBorrow, actions, next_index, treeVars,
                   todo, localVars, reply, sent, sentAt, caller, pushed,
                   engineOps, drained, applied, drainCount, cycleVars>>

\* mutant: the path leaves the tree but stays registered
DrainRemove_NoUnregister ==
    /\ pc = "draining"
    /\ pending # <<>>
    /\ Head(pending).op = "Remove"
    /\ tree' = [p \in DOMAIN tree \ {Head(pending).path} |-> tree[p]]
    /\ applied' = Append(applied, Head(pending))
    /\ pending' = Tail(pending)
    /\ UNCHANGED <<pc, engineVars, engineBorrow, actionsBorrow, actions,
                   next_index, registered, everBound, todo, localVars, reply,
                   sent, sentAt, caller, retval, pushed, engineOps, drained,
                   drainCount, cycleVars>>

\* DeferredAction::Remove: unregister_object_path, tree.remove
DrainRemove ==
    /\ pc = "draining"
    /\ pending # <<>>
    /\ Head(pending).op = "Remove"
    /\ registered' = registered \ {Head(pending).path}
    /\ tree' = [p \in DOMAIN tree \ {Head(pending).path} |-> tree[p]]
    /\ applied' = Append(applied, Head(pending))
    /\ pending' = Tail(pending)
    /\ UNCHANGED <<pc, engineVars, engineBorrow, actionsBorrow, actions,
                   next_index, everBound, todo, localVars, reply, sent,
                   sentAt, caller, retval, pushed, engineOps, drained,
                   drainCount, cycleVars>>

\* mutant: a drain that found nothing to apply reports an error
DrainEnd_EmptyIsError ==
    /\ pc = "draining"
    /\ pending = <<>>
    /\ actionsBorrow' = "none"
    /\ retval' = IF applied = <<>> THEN "Err" ELSE "Ok"
    /\ pc' = "drain_ret"
    /\ UNCHANGED <<engineVars, engineBorrow, actions, next_index, treeVars,
                   todo, localVars, reply, sent, sentAt, caller, pushed,
                   engineOps, drainVars, cycleVars>>

\* mutant: the borrow of the queue is not given back when the drain ends
DrainEnd_KeepBorrow ==
    /\ pc = "draining"
    /\ pending = <<>>
    /\ retval' = "Ok"
    /\ pc' = "drain_ret"
    /\ UNCHANGED <<engineVars, engineBorrow, actionsBorrow, actions,
                   next_index, treeVars, todo, localVars, reply, sent, sentAt,
                   caller, pushed, engineOps, drainVars, cycleVars>>

DrainEnd ==
    /\ pc = "draining"
    /\ pending = <<>>
    /\ actionsBorrow' = "none"
    /\ retval' = "Ok"
    /\ pc' = "drain_ret"
    /\ UNCHANGED <<engineVars, engineBorrow, actions, next_index, treeVars,
                   todo, localVars, reply, sent, sentAt, caller, pushed,
                   engineOps, drainVars, cycleVars>>

process_deferred_actions ==
    DrainBegin \/ DrainAdd \/ DrainAddFail \/ DrainRemove \/ DrainEnd

\* process_deferred_actions(..)?; Ok((c, tree, dbus_context))
ConnectReturn ==
    /\ pc = "drain_ret"
    /\ caller = "connect"
    /\ retval = "Ok"
    /\ pc' = "idle"
    /\ UNCHANGED <<engineVars, engineBorrow, actionsBorrow, actions,
                   next_index, treeVars, todo, localVars, reply, sent, sentAt,
                   caller, retval, pushed, engineOps, drainVars, cycleVars>>

ConnectDrainFail ==
    /\ pc = "drain_ret"
    /\ caller = "connect"
    /\ retval = "Err"
    /\ ConnectDrop("Err")

connect ==
    \/ ConnectOpen \/ ConnectOpenFail \/ ConnectBorrow \/ ConnectPool
    \/ ConnectLoopEnd \/ ConnectSetRegistered \/ ConnectSetRegisteredFail
    \/ ConnectRegisterName \/ ConnectRegisterNameFail
    \/ ConnectReturn \/ ConnectDrainFail

\* ------------------------------------------------------------- handle
\* the method calls a client can send to the Manager object
Msgs ==
    {[NoMsg EXCEPT !.method = "CreatePool", !.name = n, !.devs = 1..k]
        : n \in Names, k \in 1..MaxDevs}
    \cup {[NoMsg EXCEPT !.method = "DestroyPool", !.path = p]
        : p \in Root..(next_index + 1)}
    \cup {[NoMsg EXCEPT !.method = "ConfigureSimulator", !.denom = d]
        : d \in 0..1}
    \cup {[NoMsg EXCEPT !.method = m, !.argsOk = FALSE]
        : m \in {"CreatePool", "DestroyPool", "ConfigureSimulator"}}
    \cup {[NoMsg EXCEPT !.method = "Unknown"]}

Idle == pc \in {"idle", "returned"}

\* start of a cycle: what the observation variables are reset to
BeginCycle(m) ==
    /\ msg' = m
    /\ ncalls' = ncalls + 1
    /\ tree0' = tree
    /\ registered0' = registered
    /\ pools0' = pools
    /\ pushed' = <<>>
    /\ engineOps' = <<>>
    /\ drained' = <<>>
    /\ applied' = <<>>
    /\ drainCount' = 0
    /\ reply' = NoReply
    /\ sent' = "none"
    /\ sentAt' = 0 - 1
    /\ result' = NoResult
    /\ pool_object_path' = DefaultPath
    /\ bd_object_paths' = <<>>
    /\ retval' = "none"
    /\ caller' = "handle"

\* mutant: a call is taken up while the previous one still awaits its drain
HandleMethodCall_Reentrant ==
    /\ Idle \/ (pc = "drain_begin" /\ caller = "handle")
    /\ ncalls < MaxCalls
    /\ \E m \in Msgs : BeginCycle(m)
    /\ pc' = "dispatch"
    /\ UNCHANGED <<engineVars, engineBorrow, actionsBorrow, actions,
                   next_index, treeVars, todo, pending>>

\* handle() with a ConnectionItem::MethodCall: tree.handle(msg) is entered
HandleMethodCall ==
    /\ Idle
    /\ ncalls < MaxCalls
    /\ \E m \in Msgs : BeginCycle(m)
    /\ pc' = "dispatch"
    /\ UNCHANGED <<engineVars, engineBorrow, actionsBorrow, actions,
                   next_index, treeVars, todo, pending>>

\* handle() with any other ConnectionItem: Ok(()) at once
HandleOtherItem ==
    /\ Idle
    /\ ncalls < MaxCalls
    /\ BeginCycle([NoMsg EXCEPT !.method = "NotACall"])
    /\ pc' = "returned"
    /\ UNCHANGED <<engineVars, engineBorrow, actionsBorrow, actions,
                   next_index, treeVars, todo, pending>>

\* mutant: the deferred actions are processed only when a handler ran
HandleNoMethod_NoDrain ==
    /\ pc = "dispatch"
    /\ msg.method = "Unknown"
    /\ pc' = "returned"
    /\ retval' = "Ok"
    /\ UNCHANGED <<engineVars, engineBorrow, actionsBorrow, actions,
                   next_index, treeVars, todo, localVars, reply, sent, sentAt,
                   caller, pushed, engineOps, drainVars, cycleVars>>

\* tree.handle(msg) finds no method for the message: None
HandleNoMethod ==
    /\ pc = "dispatch"
    /\ msg.method = "Unknown"
    /\ pc' = "drain_begin"
    /\ UNCHANGED <<engineVars, engineBorrow, actionsBorrow, actions,
                   next_index, treeVars, todo, localVars, reply, sent, sentAt,
                   caller, retval, pushed, engineOps, drainVars, cycleVars>>

\* a handler returns m: tree.handle(msg) is Some(vec![m])
Return(m) ==
    /\ reply' = m
    /\ pc' = "send"

\* get_next_arg(..)? fails: the handler returns the MethodErr
ArgsErr ==
    /\ ~msg.argsOk
    /\ Return([NoReply EXCEPT !.kind = "MethodErr"])
    /\ UNCHANGED <<engineVars, engineBorrow, actionsBorrow, actions,
                   next_index, treeVars, todo, localVars, sent, sentAt,
                   caller, retval, pushed, engineOps, drainVars, cycleVars>>

\* for m in v { let _ = c.send(m); }
HandleSend ==
    /\ pc = "send"
    /\ \E s \in {"sent", "failed"} : sent' = s
    /\ sentAt' = drainCount
    /\ pc' = "drain_begin"
    /\ UNCHANGED <<engineVars, engineBorrow, actionsBorrow, actions,
                   next_index, treeVars, todo, localVars, reply, caller,
                   retval, pushed, engineOps, drainVars, cycleVars>>

\* mutant: the replies are sent once the deferred actions are processed
HandleReturn_SendLate ==
    /\ pc = "drain_ret"
    /\ caller = "handle"
    /\ pc' = "returned"
    /\ sent' = IF reply.kind = "None" THEN sent ELSE "sent"
    /\ sentAt' = IF reply.kind = "None" THEN sentAt ELSE drainCount
    /\ UNCHANGED <<engineVars, engineBorrow, actionsBorrow, actions,
                   next_index, treeVars, todo, localVars, reply,
                   caller, retval, pushed, engineOps, drainVars, cycleVars>>

\* process_deferred_actions(..)?; Ok(())
HandleReturn ==
    /\ pc = "drain_ret"
    /\ caller = "handle"
    /\ pc' = "returned"
    /\ UNCHANGED <<engineVars, engineBorrow, actionsBorrow, actions,
                   next_index, treeVars, todo, localVars, reply, sent, sentAt,
                   caller, retval, pushed, engineOps, drainVars, cycleVars>>

handle ==
    \/ HandleMethodCall \/ HandleOtherItem \/ HandleNoMethod \/ HandleSend
    \/ HandleReturn

\* ------------------------------------------------------------- create_pool
CreatePoolArgsErr ==
    /\ pc = "dispatch"
    /\ msg.method = "CreatePool"
    /\ ArgsErr

\* dbus_context.engine.borrow_mut(); engine.create_pool(..): the RefMut is
\* the local `engine`, alive until create_pool returns
CreatePoolEngine ==
    /\ pc = "dispatch"
    /\ msg.method = "CreatePool"
    /\ msg.argsOk
    /\ engineBorrow = "none"
    /\ engineBorrow' = "mut"
    /\ engineOps' = Append(engineOps, "create_pool")
    /\ \E r \in EngineCreatePoolResults(pools, nextUuid, msg.name, msg.devs) :
          /\ result' = r
          /\ pools' = EngineCreatePoolState(pools, nextUuid, msg.name,
                                            msg.devs, r)
          /\ nextUuid' = IF r.ok THEN nextUuid + 1 + Cardinality(msg.devs)
                         ELSE nextUuid
    /\ pc' = "cp_match"
    /\ UNCHANGED <<denominator, actionsBorrow, actions, next_index, treeVars,
                   todo, pool_object_path, bd_object_paths, reply, sent,
                   sentAt, caller, retval, pushed, drainVars, cycleVars>>

\* Ok(pool_uuid): create_dbus_pool(dbus_context, object_path, pool_uuid)
CreatePoolDbusPool ==
    /\ pc = "cp_match"
    /\ result.ok
    /\ Push(<<Add(next_index + 1, Root, result.uuid, "Pool")>>)
    /\ next_index' = next_index + 1
    /\ pool_object_path' = next_index + 1
    /\ pc' = "cp_blockdevs"
    /\ UNCHANGED <<engineVars, engineBorrow, actionsBorrow, treeVars, todo,
                   result, bd_object_paths, reply, sent, sentAt, caller,
                   retval, engineOps, drainVars, cycleVars>>

\* mutant: the first block device of the pool gets no object path
CreatePoolBlockdevs_SkipFirst ==
    /\ pc = "cp_blockdevs"
    /\ result.uuid \in PoolUuids(pools)
    /\ LET adds == Tail(ChildAdds(PoolOf(pools, result.uuid).bds,
                                  pool_object_path, next_index, "Blockdev"))
       IN /\ Push(adds)
          /\ next_index' = next_index + Len(adds) + 1
          /\ bd_object_paths' = [i \in 1..Len(adds) |-> adds[i].path]
    /\ pc' = "cp_reply"
    /\ UNCHANGED <<engineVars, engineBorrow, actionsBorrow, treeVars, todo,
                   result, pool_object_path, reply, sent, sentAt, caller,
                   retval, engineOps, drainVars, cycleVars>>

\* get_mut_pool!(engine; pool_uuid; ..) finds the pool just created;
\* pool.blockdevs().iter().map(create_dbus_blockdev).collect()
CreatePoolBlockdevs ==
    /\ pc = "cp_blockdevs"
    /\ result.uuid \in PoolUuids(pools)
    /\ LET adds == ChildAdds(PoolOf(pools, result.uuid).bds, pool_object_path,
                             next_index, "Blockdev")
       IN /\ Push(adds)
          /\ next_index' = next_index + Len(adds)
          /\ bd_object_paths' = [i \in 1..Len(adds) |-> adds[i].path]
    /\ pc' = "cp_reply"
    /\ UNCHANGED <<engineVars, engineBorrow, actionsBorrow, treeVars, todo,
                   result, pool_object_path, reply, sent, sentAt, caller,
                   retval, engineOps, drainVars, cycleVars>>

\* mutant: the reply is built but the RefMut `engine` is leaked
CreatePoolOkReply_Leak ==
    /\ pc = "cp_reply"
    /\ Return([NoReply EXCEPT !.kind = "CreatePool",
                              !.path = pool_object_path,
                              !.devs = bd_object_paths,
                              !.rc = msg_code_ok, !.rs = msg_string_ok])
    /\ UNCHANGED <<engineVars, engineBorrow, actionsBorrow, actions,
                   next_index, treeVars, todo, localVars, sent, sentAt,
                   caller, retval, pushed, engineOps, drainVars, cycleVars>>

\* append3((pool_object_path, bd_object_paths), msg_code_ok, msg_string_ok);
\* Ok(vec![msg]) and `engine` goes out of scope
CreatePoolOkReply ==
    /\ pc = "cp_reply"
    /\ Return([NoReply EXCEPT !.kind = "CreatePool",
                              !.path = pool_object_path,
                              !.devs = bd_object_paths,
                              !.rc = msg_code_ok, !.rs = msg_string_ok])
    /\ engineBorrow' = "none"
    /\ UNCHANGED <<engineVars, actionsBorrow, actions, next_index, treeVars,
                   todo, localVars, sent, sentAt, caller, retval, pushed,
                   engineOps, drainVars, cycleVars>>

\* mutant: the error reply carries the paths of a pool created anyway
CreatePoolErrReply_Ok ==
    /\ pc = "cp_match"
    /\ ~result.ok
    /\ Push(<<Add(next_index + 1, Root, result.uuid, "Pool")>>)
    /\ next_index' = next_index + 1
    /\ Return([NoReply EXCEPT !.kind = "CreatePool",
                              !.path = next_index + 1, !.devs = <<>>,
                              !.rc = engine_to_dbus_err_tuple(result).rc,
                              !.rs = engine_to_dbus_err_tuple(result).rs])
    /\ engineBorrow' = "none"
    /\ UNCHANGED <<engineVars, actionsBorrow, treeVars,
                   todo, localVars, sent, sentAt, caller, retval,
                   engineOps, drainVars, cycleVars>>

\* Err(x): append3(default_return, rc, rs); Ok(vec![msg])
CreatePoolErrReply ==
    /\ pc = "cp_match"
    /\ ~result.ok
    /\ Return([NoReply EXCEPT !.kind = "CreatePool",
                              !.path = DefaultPath, !.devs = <<>>,
                              !.rc = engine_to_dbus_err_tuple(result).rc,
                              !.rs = engine_to_dbus_err_tuple(result).rs])
    /\ engineBorrow' = "none"
    /\ UNCHANGED <<engineVars, actionsBorrow, actions, next_index, treeVars,
                   todo, localVars, sent, sentAt, caller, retval, pushed,
                   engineOps, drainVars, cycleVars>>

create_pool ==
    \/ CreatePoolArgsErr \/ CreatePoolEngine \/ CreatePoolDbusPool
    \/ CreatePoolBlockdevs \/ CreatePoolOkReply \/ CreatePoolErrReply

\* ------------------------------------------------------------ destroy_pool
DestroyPoolArgsErr ==
    /\ pc = "dispatch"
    /\ msg.method = "DestroyPool"
    /\ ArgsErr

\* mutant: the Remove is queued although the path is not in the tree
DestroyPoolNotFound_Remove ==
    /\ pc = "dispatch"
    /\ msg.method = "DestroyPool"
    /\ msg.argsOk
    /\ msg.path \notin DOMAIN tree
    /\ Push(<<Remove(msg.path)>>)
    /\ Return([NoReply EXCEPT !.kind = "DestroyPool", !.action = FALSE,
                              !.rc = msg_code_ok, !.rs = msg_string_ok])
    /\ UNCHANGED <<engineVars, engineBorrow, actionsBorrow,
                   next_index, treeVars, todo, localVars, sent, sentAt,
                   caller, retval, engineOps, drainVars, cycleVars>>

\* m.tree.get(&object_path) is None: the default reply, at once
DestroyPoolNotFound ==
    /\ pc = "dispatch"
    /\ msg.method = "DestroyPool"
    /\ msg.argsOk
    /\ msg.path \notin DOMAIN tree
    /\ Return([NoReply EXCEPT !.kind = "DestroyPool", !.action = FALSE,
                              !.rc = msg_code_ok, !.rs = msg_string_ok])
    /\ UNCHANGED <<engineVars, engineBorrow, actionsBorrow, actions,
                   next_index, treeVars, todo, localVars, sent, sentAt,
                   caller, retval, pushed, engineOps, drainVars, cycleVars>>

\* get_data!(pool_path; ..) on a path bound without data (the Manager's)
DestroyPoolNoData ==
    /\ pc = "dispatch"
    /\ msg.method = "DestroyPool"
    /\ msg.argsOk
    /\ msg.path \in DOMAIN tree
    /\ tree[msg.path].uuid = NoUuid
    /\ Return([NoReply EXCEPT !.kind = "DestroyPool", !.action = FALSE,
                              !.rc = INTERNAL_ERROR, !.rs = "no data"])
    /\ UNCHANGED <<engineVars, engineBorrow, actionsBorrow, actions,
                   next_index, treeVars, todo, localVars, sent, sentAt,
                   caller, retval, pushed, engineOps, drainVars, cycleVars>>

\* match dbus_context.engine.borrow_mut().destroy_pool(pool_uuid): the RefMut
\* is a temporary of the scrutinee, alive until the match statement ends
DestroyPoolEngine ==
    /\ pc = "dispatch"
    /\ msg.method = "DestroyPool"
    /\ msg.argsOk
    /\ msg.path \in DOMAIN tree
    /\ tree[msg.path].uuid # NoUuid
    /\ engineBorrow = "none"
    /\ engineBorrow' = "mut"
    /\ engineOps' = Append(engineOps, "destroy_pool")
    /\ result' = EngineDestroyPoolResult(pools, tree[msg.path].uuid)
    /\ pools' = EngineDestroyPoolState(pools, tree[msg.path].uuid)
    /\ pc' = "dp_match"
    /\ UNCHANGED <<nextUuid, denominator, actionsBorrow, actions, next_index,
                   treeVars, todo, pool_object_path, bd_object_paths, reply,
                   sent, sentAt, caller, retval, pushed, drainVars,
                   cycleVars>>

\* mutant: the Ok arm builds the reply without queueing the Remove
DestroyPoolPushRemove_Skip ==
    /\ pc = "dp_match"
    /\ result.ok
    /\ pc' = "dp_reply"
    /\ UNCHANGED <<engineVars, engineBorrow, actionsBorrow, actions,
                   next_index, treeVars, todo, localVars, reply, sent, sentAt,
                   caller, retval, pushed, engineOps, drainVars, cycleVars>>

\* mutant: the Remove is queued only when the engine took an action
DestroyPoolPushRemove_IfAction ==
    /\ pc = "dp_match"
    /\ result.ok
    /\ IF result.action
       THEN Push(<<Remove(msg.path)>>)
       ELSE UNCHANGED <<actions, pushed>>
    /\ pc' = "dp_reply"
    /\ UNCHANGED <<engineVars, engineBorrow, actionsBorrow, next_index,
                   treeVars, todo, localVars, reply, sent, sentAt, caller,
                   retval, engineOps, drainVars, cycleVars>>

\* Ok(action): dbus_context.actions.borrow_mut().push_remove(object_path)
DestroyPoolPushRemove ==
    /\ pc = "dp_match"
    /\ result.ok
    /\ Push(<<Remove(msg.path)>>)
    /\ pc' = "dp_reply"
    /\ UNCHANGED <<engineVars, engineBorrow, actionsBorrow, next_index,
                   treeVars, todo, localVars, reply, sent, sentAt, caller,
                   retval, engineOps, drainVars, cycleVars>>

\* append3(action, msg_code_ok, msg_string_ok); the match statement ends
DestroyPoolOkReply ==
    /\ pc = "dp_reply"
    /\ Return([NoReply EXCEPT !.kind = "DestroyPool",
                              !.action = result.action,
                              !.rc = msg_code_ok, !.rs = msg_string_ok])
    /\ engineBorrow' = "none"
    /\ UNCHANGED <<engineVars, actionsBorrow, actions, next_index, treeVars,
                   todo, localVars, sent, sentAt, caller, retval, pushed,
                   engineOps, drainVars, cycleVars>>

\* mutant: the Err arm queues the Remove as well
DestroyPoolErrReply_Remove ==
    /\ pc = "dp_match"
    /\ ~result.ok
    /\ Push(<<Remove(msg.path)>>)
    /\ Return([NoReply EXCEPT !.kind = "DestroyPool", !.action = FALSE,
                              !.rc = engine_to_dbus_err_tuple(result).rc,
                              !.rs = engine_to_dbus_err_tuple(result).rs])
    /\ engineBorrow' = "none"
    /\ UNCHANGED <<engineVars, actionsBorrow, next_index, treeVars,
                   todo, localVars, sent, sentAt, caller, retval,
                   engineOps, drainVars, cycleVars>>

\* Err(err): append3(default_return, rc, rs); the match statement ends
DestroyPoolErrReply ==
    /\ pc = "dp_match"
    /\ ~result.ok
    /\ Return([NoReply EXCEPT !.kind = "DestroyPool", !.action = FALSE,
                              !.rc = engine_to_dbus_err_tuple(result).rc,
                              !.rs = engine_to_dbus_err_tuple(result).rs])
    /\ engineBorrow' = "none"
    /\ UNCHANGED <<engineVars, actionsBorrow, actions, next_index, treeVars,
                   todo, localVars, sent, sentAt, caller, retval, pushed,
                   engineOps, drainVars, cycleVars>>

destroy_pool ==
    \/ DestroyPoolArgsErr \/ DestroyPoolNotFound \/ DestroyPoolNoData
    \/ DestroyPoolEngine \/ DestroyPoolPushRemove \/ DestroyPoolOkReply
    \/ DestroyPoolErrReply

\* ----------------------------------------------------- configure_simulator
ConfigureSimulatorArgsErr ==
    /\ pc = "dispatch"
    /\ msg.method = "ConfigureSimulator"
    /\ ArgsErr

\* dbus_context.engine.borrow_mut().configure_simulator(denominator)
ConfigureSimulatorEngine ==
    /\ pc = "dispatch"
    /\ msg.method = "ConfigureSimulator"
    /\ msg.argsOk
    /\ engineBorrow = "none"
    /\ engineBorrow' = "mut"
    /\ engineOps' = Append(engineOps, "configure_simulator")
    /\ \E r \in EngineConfigureResults(msg.denom) :
          /\ result' = r
          /\ denominator' = IF r.ok THEN msg.denom ELSE denominator
    /\ pc' = "cs_called"
    /\ UNCHANGED <<pools, nextUuid, actionsBorrow, actions, next_index,
                   treeVars, todo, pool_object_path, bd_object_paths, reply,
                   sent, sentAt, caller, retval, pushed, drainVars,
                   cycleVars>>

\* mutant: the RefMut is bound to a local and outlives the statement
ConfigureSimulatorRelease_Keep ==
    /\ pc = "cs_called"
    /\ pc' = "cs_match"
    /\ UNCHANGED <<engineVars, engineBorrow, actionsBorrow, actions,
                   next_index, treeVars, todo, localVars, reply, sent, sentAt,
                   caller, retval, pushed, engineOps, drainVars, cycleVars>>

\* the `let result = ..;` statement ends: the temporary RefMut is dropped
ConfigureSimulatorRelease ==
    /\ pc = "cs_called"
    /\ engineBorrow' = "none"
    /\ pc' = "cs_match"
    /\ UNCHANGED <<engineVars, actionsBorrow, actions, next_index, treeVars,
                   todo, localVars, reply, sent, sentAt, caller, retval,
                   pushed, engineOps, drainVars, cycleVars>>

ConfigureSimulatorOkReply ==
    /\ pc = "cs_match"
    /\ result.ok
    /\ Return([NoReply EXCEPT !.kind = "ConfigureSimulator",
                              !.rc = msg_code_ok, !.rs = msg_string_ok])
    /\ UNCHANGED <<engineVars, engineBorrow, actionsBorrow, actions,
                   next_index, treeVars, todo, localVars, sent, sentAt,
                   caller, retval, pushed, engineOps, drainVars, cycleVars>>

\* mutant: the engine's error leaves the handler as a MethodErr
ConfigureSimulatorErrReply_Fault ==
    /\ pc = "cs_match"
    /\ ~result.ok
    /\ Return([NoReply EXCEPT !.kind = "MethodErr"])
    /\ UNCHANGED <<engineVars, engineBorrow, actionsBorrow, actions,
                   next_index, treeVars, todo, localVars, sent, sentAt,
                   caller, retval, pushed, engineOps, drainVars, cycleVars>>

ConfigureSimulatorErrReply ==
    /\ pc = "cs_match"
    /\ ~result.ok
    /\ Return([NoReply EXCEPT !.kind = "ConfigureSimulator",
                              !.rc = engine_to_dbus_err_tuple(result).rc,
                              !.rs = engine_to_dbus_err_tuple(result).rs])
    /\ UNCHANGED <<engineVars, engineBorrow, actionsBorrow, actions,
                   next_index, treeVars, todo, localVars, sent, sentAt,
                   caller, retval, pushed, engineOps, drainVars, cycleVars>>

configure_simulator ==
    \/ ConfigureSimulatorArgsErr \/ ConfigureSimulatorEngine
    \/ ConfigureSimulatorRelease \/ ConfigureSimulatorOkReply
    \/ ConfigureSimulatorErrReply

\* ------------------------------------------------------------- the daemon
Next ==
    \/ connect
    \/ process_deferred_actions
    \/ handle
    \/ create_pool
    \/ destroy_pool
    \/ configure_simulator

Spec == Init /\ [][Next]_vars

\* ------------------------------------------------------------ properties
HandlerPcs ==
    {"cp_match", "cp_blockdevs", "cp_reply", "dp_match", "dp_reply",
     "cs_called", "cs_match"}
DrainPcs == {"drain_begin", "draining", "drain_ret"}

Acts(ps) == [i \in 1..Len(ps) |-> ps[i].act]
Paths(as) == {as[i].path : i \in 1..Len(as)}
NonRoot(S) == S \ {Root}
InCall == caller = "handle" /\ msg.method \notin {"None", "NotACall"}

C2_BoundPathsLive ==
    Idle => \A p \in NonRoot(DOMAIN tree) : tree[p].uuid \in LiveUuids(pools)

\* C3 (as claimed): a reply is sent only once the drain has applied the
\* actions enqueued by its call.
C3_ReplyAfterDrain ==
    (sent = "sent" /\ pushed # <<>>) =>
        /\ drainCount = 1
        /\ actions = <<>>
        /\ pending = <<>>

\* C3 (amended): the reply is sent before the drain: when it is sent the
\* call's actions are all still queued and the Registry and the transport
\* registration are as they were at dispatch; the drain runs afterwards,
\* before handle returns.
C3_ReplyBeforeDrain ==
    /\ sent # "none" => sentAt = 0
    /\ (pc = "drain_begin" /\ caller = "handle") =>
          /\ actions = Acts(pushed)
          /\ tree = tree0
          /\ registered = registered0
    /\ (pc = "returned" /\ InCall) => (drainCount = 1 /\ actions = <<>>)

C3_Witness ==
    /\ sent = "sent"
    /\ pc = "drain_begin"
    /\ Len(actions) >= 2

\* C4: the queue is empty whenever a call is dispatched and when connect has
\* returned, also after a drain that ended with a registration error.
C4_QueueEmptyAtDispatch ==
    (Idle \/ pc = "dispatch") => (actions = <<>> /\ pending = <<>>)

C4_Witness ==
    /\ pc = "returned"
    /\ retval = "Err"
    /\ Len(drained) > Len(applied) + 1
    /\ actions = <<>>

\* C5: DestroyPool of a path that is not bound replies (false, 0, "OK"),
\* never borrows the engine nor calls it, enqueues nothing and leaves the
\* Registry, the transport registration and the engine as they were.
DestroyUnbound ==
    /\ msg.method = "DestroyPool"
    /\ msg.argsOk
    /\ msg.path \notin DOMAIN tree0
    /\ caller = "handle"

C5_DestroyUnboundIsNoOp ==
    DestroyUnbound =>
        /\ engineBorrow = "none"
        /\ engineOps = <<>>
        /\ pushed = <<>>
        /\ tree = tree0
        /\ registered = registered0
        /\ pools = pools0
        /\ pc # "dispatch" =>
              reply = [NoReply EXCEPT !.kind = "DestroyPool",
                                      !.action = FALSE,
                                      !.rc = 0, !.rs = "OK"]

C5_Witness ==
    /\ DestroyUnbound
    /\ pc = "returned"
    /\ NonRoot(DOMAIN tree) # {}
    /\ pools # {}

\* C6: a CreatePool reply with a non-zero code carries the default payload
\* and the engine's message, its call enqueued nothing and the Registry is
\* what it was before the call.
C6_CreatePoolFailure ==
    (reply.kind = "CreatePool" /\ reply.rc # 0) =>
        /\ reply.path = DefaultPath
        /\ reply.devs = <<>>
        /\ ~result.ok
        /\ reply.rs = result.msg
        /\ pushed = <<>>
        /\ tree = tree0
        /\ registered = registered0

C6_Witness ==
    /\ pc = "returned"
    /\ reply.kind = "CreatePool"
    /\ reply.rc # 0
    /\ ncalls = 2
    /\ \E q \in pools0 : q.name = msg.name /\ Cardinality(q.bds) = 2

\* the Adds of a successful CreatePool: the pool, then its block devices
CreatedPool == PoolOf(pools, result.uuid)
CreatePoolOk ==
    /\ reply.kind = "CreatePool"
    /\ result.ok
    /\ pc \in {"send"} \cup DrainPcs \cup {"returned"}

CreatePoolReplyOk ==
    /\ reply.rc = 0
    /\ reply.path # DefaultPath
    /\ reply.path \notin DOMAIN tree0
    /\ Len(reply.devs) = Cardinality(CreatedPool.bds)
    /\ Len(pushed) = 1 + Cardinality(CreatedPool.bds)
    /\ \A i \in 1..Len(pushed) : pushed[i].act.op = "Add"
    /\ pushed[1].act.uuid = result.uuid
    /\ pushed[1].act.path = reply.path
    /\ {pushed[i].act.uuid : i \in 2..Len(pushed)} = CreatedPool.bds
    /\ \A i \in 1..Len(reply.devs) : pushed[i + 1].act.path = reply.devs[i]
    /\ Cardinality(Paths(Acts(pushed))) = Len(pushed)
    /\ Paths(Acts(pushed)) \cap DOMAIN tree0 = {}

\* C7 (as claimed): an accepted CreatePool replies code 0 with the new paths,
\* enqueues one Add per created entity, and after the drain exactly those
\* paths are newly bound.
C7_CreatePoolSuccess ==
    CreatePoolOk =>
        /\ CreatePoolReplyOk
        /\ pc = "returned" =>
              DOMAIN tree = DOMAIN tree0 \cup Paths(Acts(pushed))

\* C7 (amended): as claimed, but exactly those paths are newly bound only
\* after a drain that met no registration error; after one that did, the
\* paths of the Adds before the failing one are bound and no others.
C7_CreatePoolSuccessDrained ==
    CreatePoolOk =>
        /\ CreatePoolReplyOk
        /\ pc = "returned" =>
              /\ DOMAIN tree = DOMAIN tree0 \cup Paths(applied)
              /\ IsPrefix(applied, Acts(pushed))
              /\ retval = "Ok" => applied = Acts(pushed)

C7_Witness ==
    /\ CreatePoolOk
    /\ pc = "returned"
    /\ retval = "Ok"
    /\ Len(reply.devs) = 2
    /\ Cardinality(DOMAIN tree) = Cardinality(DOMAIN tree0) + 3

\* C8: a drain applies the actions in the order they were enqueued, so a
\* pool's path is bound before the paths of its children: no child path is
\* bound whose parent path was never bound.
C8_Fifo ==
    /\ drainCount >= 1 => drained = Acts(pushed)
    /\ pc = "draining" => applied \o pending = drained
    /\ IsPrefix(applied, drained)
    /\ (pc = "drain_ret" /\ retval = "Ok") => applied = drained
    /\ \A p \in NonRoot(DOMAIN tree) :
          tree[p].parent \in everBound \cup {Root}

C8_Witness ==
    /\ pc = "draining"
    /\ Len(applied) = 1
    /\ Len(pending) >= 2
    /\ applied[1].kind = "Pool"
    /\ Head(pending).parent = applied[1].path

\* C9: every method call is followed by exactly one drain, begun after the
\* handler has returned and with no borrow of the engine outstanding, also
\* when no handler matched and when the reply could not be sent; connect's
\* drain runs after its shared borrow has ended.
C9_OneDrainPerCall ==
    /\ drainCount <= 1
    /\ (pc = "returned" /\ InCall) => drainCount = 1
    /\ pc \in DrainPcs => engineBorrow = "none"
    /\ pc \in HandlerPcs \cup {"dispatch", "send"} => drainCount = 0
    /\ drainCount = 1 => pc \in {"draining", "drain_ret", "returned", "idle",
                                 "exit"}

C9_Witness ==
    /\ pc = "returned"
    /\ drainCount = 1
    /\ msg.method = "Unknown"

\* C10: the Registry and the transport registration hold the same non-root
\* paths, also after a drain cut short by a registration error, and neither
\* changes between dispatch and the start of the drain.
C10_Lockstep ==
    /\ NonRoot(DOMAIN tree) = NonRoot(registered)
    /\ (InCall /\ pc \in HandlerPcs \cup {"dispatch", "send", "drain_begin"})
          => (tree = tree0 /\ registered = registered0)

C10_Witness ==
    /\ pc = "drain_ret"
    /\ caller = "handle"
    /\ retval = "Err"
    /\ applied # <<>>

\* a DestroyPool call that reached the engine, once the handler has returned
AfterHandlerPcs == {"send"} \cup DrainPcs \cup {"returned"}
DestroyCalled ==
    /\ msg.method = "DestroyPool"
    /\ engineOps = <<"destroy_pool">>
    /\ pc \in AfterHandlerPcs

\* C11: when the engine's destroy operation succeeds for a bound pool path,
\* that path is unbound and unregistered when the call's cycle ends.
C11_RemoveApplied ==
    (DestroyCalled /\ result.ok /\ pc = "returned") =>
        /\ msg.path \in DOMAIN tree0
        /\ msg.path \notin DOMAIN tree
        /\ msg.path \notin registered
        /\ applied = <<Remove(msg.path)>>
        /\ retval = "Ok"

C11_Witness ==
    /\ DestroyCalled
    /\ pc = "returned"
    /\ result.ok
    /\ result.action
    /\ tree0[msg.path].kind = "Pool"
    /\ Cardinality(pools) < Cardinality(pools0)

\* C12: a failure of an engine operation reaches the caller as the handler's
\* normal reply with a non-zero code and the engine's message; a handler
\* returns a MethodErr only when an argument cannot be decoded, and then the
\* engine was not touched and nothing was enqueued.
C12_EngineErrorsAreReplies ==
    /\ (engineOps # <<>> /\ ~result.ok /\ pc \in AfterHandlerPcs) =>
          /\ reply.kind = msg.method
          /\ reply.rc # 0
          /\ reply.rs = result.msg
          /\ pc = "returned" => retval = "Ok"
    /\ reply.kind = "MethodErr" =>
          /\ ~msg.argsOk
          /\ engineOps = <<>>
          /\ engineBorrow = "none"
          /\ pushed = <<>>
          /\ pools = pools0
    /\ (~msg.argsOk /\ pc \in AfterHandlerPcs) => reply.kind = "MethodErr"

C12_Witness ==
    /\ pc = "returned"
    /\ msg.method = "ConfigureSimulator"
    /\ engineOps = <<"configure_simulator">>
    /\ ~result.ok
    /\ reply.rc = 1
    /\ sent = "sent"

\* C17: DestroyPool of a bound path for which the engine's destroy fails
\* replies (false, non-zero code, engine message), enqueues no Remove and
\* leaves the path bound.
C17_DestroyFailureKeepsPath ==
    (DestroyCalled /\ ~result.ok) =>
        /\ reply = [NoReply EXCEPT !.kind = "DestroyPool", !.action = FALSE,
                                   !.rc = ErrCode(result.kind),
                                   !.rs = result.msg]
        /\ reply.rc # 0
        /\ pushed = <<>>
        /\ tree = tree0
        /\ registered = registered0
        /\ msg.path \in DOMAIN tree
        /\ pools = pools0

C17_Witness ==
    /\ DestroyCalled
    /\ ~result.ok
    /\ pc = "returned"
    /\ tree[msg.path].kind = "Pool"
    /\ PoolOf(pools, tree[msg.path].uuid).fss # {}

\* C18: DestroyPool of a bound path enqueues exactly one Remove, for the
\* caller's path, exactly when the engine's destroy returns Ok, whatever the
\* boolean; the reply's first field is that boolean.
C18_RemoveIffOk ==
    DestroyCalled =>
        /\ result.ok <=> Acts(pushed) = <<Remove(msg.path)>>
        /\ ~result.ok => pushed = <<>>
        /\ result.ok =>
              reply = [NoReply EXCEPT !.kind = "DestroyPool",
                                      !.action = result.action,
                                      !.rc = 0, !.rs = "OK"]

C18_Witness ==
    /\ DestroyCalled
    /\ pc = "returned"
    /\ result.ok
    /\ ~result.action
    /\ reply.action = FALSE
    /\ Acts(pushed) = <<Remove(msg.path)>>

\* C20: ConfigureSimulator enqueues nothing and leaves the Registry and the
\* transport registration alone, replies (0, "OK") when the engine accepts
\* and (non-zero code, engine message) when it rejects, and holds no engine
\* borrow when the reply is built.
ConfigureCalled ==
    /\ msg.method = "ConfigureSimulator"
    /\ msg.argsOk
    /\ caller = "handle"

C20_ConfigureSimulatorFrame ==
    ConfigureCalled =>
        /\ pushed = <<>>
        /\ actions = <<>>
        /\ tree = tree0
        /\ registered = registered0
        /\ pools = pools0
        /\ pc = "cs_match" => engineBorrow = "none"
        /\ pc \in AfterHandlerPcs =>
              /\ engineBorrow = "none"
              /\ engineOps = <<"configure_simulator">>
              /\ reply = [NoReply EXCEPT
                             !.kind = "ConfigureSimulator",
                             !.rc = IF result.ok THEN 0
                                    ELSE ErrCode(result.kind),
                             !.rs = IF result.ok THEN "OK" ELSE result.msg]
              /\ result.ok <=> reply.rc = 0

C20_Witness ==
    /\ ConfigureCalled
    /\ pc = "returned"
    /\ result.ok
    /\ denominator = 1
    /\ NonRoot(DOMAIN tree) # {}

\* the state of the dispatch loop
Phase ==
    IF pc = "exit" THEN "Exit"
    ELSE IF caller = "connect" /\ pc # "idle" THEN "Boot"
    ELSE IF Idle THEN "Idle"
    ELSE IF pc \in DrainPcs THEN "Draining"
    ELSE "Dispatching"

PhaseOrder ==
    {<<"Boot", "Idle">>, <<"Boot", "Exit">>, <<"Idle", "Dispatching">>,
     <<"Dispatching", "Draining">>, <<"Draining", "Idle">>}

C13_Step ==
    /\ Phase' # Phase => <<Phase, Phase'>> \in PhaseOrder
    /\ ncalls' # ncalls =>
          /\ Phase = "Idle"
          /\ actions = <<>>
          /\ pending = <<>>
          /\ engineBorrow = "none"
          /\ actionsBorrow = "none"
    /\ engineVars' # engineVars => (Phase = "Dispatching" /\ pending = <<>>)
    /\ (tree' # tree \/ registered' # registered) =>
          (Phase \in {"Boot", "Draining"} /\ engineBorrow = "none")

\* C13: the loop goes Idle -> Dispatching -> Draining -> Idle: a call is
\* taken up only when the loop is idle with the queue drained and no borrow
\* outstanding, the engine changes only while a call is dispatching and the
\* Registry only while it is draining.
C13_Sequential == [][C13_Step]_vars

C13_Witness ==
    /\ ncalls = 2
    /\ Phase = "Draining"
    /\ pending # <<>>
    /\ pools # pools0
    /\ Cardinality(DOMAIN tree0) > 1

PathsOf(u) == {p \in NonRoot(DOMAIN tree) : tree[p].uuid = u}
PathsOfKind(k) == {p \in NonRoot(DOMAIN tree) : tree[p].kind = k}

\* C14: when connect has succeeded the Registry holds the root and exactly
\* one path per pool, filesystem and block device of the engine, each child
\* path belongs to the path of its pool, and the bootstrap actions are all
\* drained before the first call.
C14_BootstrapFidelity ==
    pc = "idle" =>
        /\ Root \in DOMAIN tree
        /\ tree[Root] = NoData
        /\ \A u \in LiveUuids(pools) : Cardinality(PathsOf(u)) = 1
        /\ \A p \in NonRoot(DOMAIN tree) : tree[p].uuid \in LiveUuids(pools)
        /\ Cardinality(NonRoot(DOMAIN tree)) = Cardinality(LiveUuids(pools))
        /\ \A q \in pools :
              /\ \A p \in PathsOf(q.uuid) :
                    tree[p].kind = "Pool" /\ tree[p].parent = Root
              /\ \A f \in q.fss : \A p \in PathsOf(f) :
                    /\ tree[p].kind = "Filesystem"
                    /\ tree[p].parent \in PathsOf(q.uuid)
              /\ \A b \in q.bds : \A p \in PathsOf(b) :
                    /\ tree[p].kind = "Blockdev"
                    /\ tree[p].parent \in PathsOf(q.uuid)
        /\ registered = DOMAIN tree
        /\ actions = <<>>
        /\ pending = <<>>
        /\ ncalls = 0

C14_Witness ==
    /\ pc = "idle"
    /\ Cardinality(pools) = 2
    /\ Cardinality(UNION {q.fss : q \in pools}) = 1
    /\ Cardinality(PathsOfKind("Pool") \cup PathsOfKind("Filesystem")) = 3
    /\ Cardinality(PathsOfKind("Blockdev")) = 2

\* C15: a drain of an empty queue applies nothing, leaves the Registry, the
\* transport registration and the queue as they were, and succeeds.
C15_EmptyDrainIsNoOp ==
    (drainCount = 1 /\ drained = <<>>
        /\ pc \in {"draining", "drain_ret", "returned", "idle"}) =>
        /\ applied = <<>>
        /\ pending = <<>>
        /\ actions = <<>>
        /\ pc # "draining" => retval = "Ok"
        /\ caller = "handle" => (tree = tree0 /\ registered = registered0)
        /\ caller = "connect" =>
              (tree = (Root :> NoData) /\ registered = {Root})

\* the bootstrap drain and the drain of the first call both found the queue
\* empty
C15_Witness ==
    /\ pc = "returned"
    /\ ncalls = 1
    /\ drainCount = 1
    /\ drained = <<>>
    /\ pools = {}
    /\ everBound = {}
    /\ msg.method = "Unknown"

\* the positions whose next step borrows the engine exclusively, and those
\* whose next step borrows the queue
AtEngineBorrowMut ==
    /\ pc = "dispatch"
    /\ msg.argsOk
    /\ \/ msg.method \in {"CreatePool", "ConfigureSimulator"}
       \/ /\ msg.method = "DestroyPool"
          /\ msg.path \in DOMAIN tree
          /\ tree[msg.path].uuid # NoUuid

AtQueueBorrow ==
    \/ pc = "enumerate" /\ todo # {}
    \/ pc = "cp_match" /\ result.ok
    \/ pc = "cp_blockdevs"
    \/ pc = "dp_match" /\ result.ok
    \/ pc = "drain_begin"

\* C16: the engine is never borrowed while a conflicting borrow of it is
\* outstanding, nor is the queue; the constructors run under the caller's
\* borrow of the engine (exclusive in create_pool, shared in connect) and
\* leave it as it is.
C16_NoBorrowConflict ==
    /\ AtEngineBorrowMut => engineBorrow = "none"
    /\ pc = "borrow" => engineBorrow # "mut"
    /\ AtQueueBorrow => actionsBorrow = "none"
    /\ pc \in {"cp_match", "cp_blockdevs", "cp_reply"} => engineBorrow = "mut"
    /\ pc = "enumerate" => engineBorrow = "shared"
    /\ actionsBorrow = "mut" => pc = "draining"

C16_Witness ==
    /\ pc = "cp_reply"
    /\ engineBorrow = "mut"
    /\ actionsBorrow = "none"
    /\ Len(pushed) = 3

DrainReturned == pc \in {"drain_ret", "returned"} /\ drainCount = 1

\* C19: when the registration of an Add fails, the drain returns the error,
\* the failing path is not bound, the actions before it stay applied and the
\* actions behind it are applied neither to the Registry nor to the
\* transport.
C19_FailedAddStopsDrain ==
    /\ (DrainReturned /\ Len(applied) < Len(drained)) => retval = "Err"
    /\ (DrainReturned /\ retval = "Err") =>
          /\ Len(applied) < Len(drained)
          /\ IsPrefix(applied, drained)
          /\ drained[Len(applied) + 1].op = "Add"
          /\ \A i \in 1..Len(applied) :
                /\ applied[i].path \in DOMAIN tree
                /\ applied[i].path \in registered
          /\ \A i \in (Len(applied) + 1)..Len(drained) :
                /\ drained[i].path \notin DOMAIN tree
                /\ drained[i].path \notin registered
                /\ drained[i].path \notin everBound
          /\ actions = <<>>
          /\ pending = <<>>
          /\ caller = "handle" =>
                DOMAIN tree = DOMAIN tree0 \cup Paths(applied)

C19_Witness ==
    /\ pc = "returned"
    /\ retval = "Err"
    /\ Len(applied) = 1
    /\ Len(drained) = 3
    /\ applied[1].path \in DOMAIN tree

====
